---- MODULE Spec2Model ----
(***************************************************************************)
(* A model of regex_ai.py: the RegexAI class (common-pattern lookup,       *)
(* prompt building, response parsing, pattern testing, pattern explaining) *)
(* and its generate entry point.                                           *)
(*                                                                         *)
(* Text is modelled as a sequence of one-character strings, so that        *)
(* lower(), strip(), split(), startswith(), replace() and the `in`         *)
(* substring test are computed character by character.                     *)
(***************************************************************************)
EXTENDS Integers, Sequences, FiniteSets, TLC

VARIABLES
    pc,            \* position of the harness / of main
    description,   \* generate / check_common_patterns argument
    test_string,   \* generate / _test_pattern argument
    dry_run,       \* generate argument
    explain,       \* generate argument
    api_key,       \* os.getenv("OPENAI_API_KEY")
    completion,    \* outcome of openai.chat.completions.create
    engine,        \* outcome of re.search for the pattern and the sample
    result,        \* raw text handed to _parse_response
    pattern,       \* pattern handed to _test_pattern / _explain_pattern
    returned,      \* values returned by the calls made so far
    output,        \* what the call printed, as a sequence of events
    outcome        \* how the call ended

vars == <<pc, description, test_string, dry_run, explain, api_key, completion,
          engine, result, pattern, returned, output, outcome>>

----------------------------------------------------------------------------
(* Bounds of the model. *)

MaxDescPieces == 3
MaxRespPieces == 5
MaxPatLen == 4

----------------------------------------------------------------------------
(* Python str primitives, character by character. *)

UpperChars == <<"A","B","C","D","E","F","G","H","I","J","K","L","M",
                "N","O","P","Q","R","S","T","U","V","W","X","Y","Z">>
LowerChars == <<"a","b","c","d","e","f","g","h","i","j","k","l","m",
                "n","o","p","q","r","s","t","u","v","w","x","y","z">>

LowerChar(c) ==
    IF \E i \in 1..26 : UpperChars[i] = c
    THEN LowerChars[CHOOSE i \in 1..26 : UpperChars[i] = c]
    ELSE c

\* str.lower()
Lower(s) == [i \in 1..Len(s) |-> LowerChar(s[i])]

\* s.startswith(p)
StartsWith(s, p) == Len(p) <= Len(s) /\ SubSeq(s, 1, Len(p)) = p

\* p in s
Contains(s, p) ==
    \E i \in 0..(Len(s) - Len(p)) : SubSeq(s, i + 1, i + Len(p)) = p

\* the characters str.strip() removes
Whitespace == {" ", "\t", "\r", "\n"}

RECURSIVE LStrip(_)
LStrip(s) ==
    IF s # <<>> /\ Head(s) \in Whitespace THEN LStrip(Tail(s)) ELSE s

RECURSIVE RStrip(_)
RStrip(s) ==
    IF s # <<>> /\ s[Len(s)] \in Whitespace
    THEN RStrip(SubSeq(s, 1, Len(s) - 1))
    ELSE s

\* str.strip()
Strip(s) == RStrip(LStrip(s))

\* s.split(c) for a one-character separator: the pieces between the
\* separators, the empty ones included
RECURSIVE SplitAcc(_, _, _)
SplitAcc(s, c, cur) ==
    IF s = <<>> THEN <<cur>>
    ELSE IF Head(s) = c THEN <<cur>> \o SplitAcc(Tail(s), c, <<>>)
    ELSE SplitAcc(Tail(s), c, Append(cur, Head(s)))

Split(s, c) == SplitAcc(s, c, <<>>)

\* s.replace(p, ""): every non-overlapping occurrence of p, left to right
RECURSIVE ReplaceAll(_, _)
ReplaceAll(s, p) ==
    IF s = <<>> THEN <<>>
    ELSE IF StartsWith(s, p) THEN ReplaceAll(SubSeq(s, Len(p) + 1, Len(s)), p)
    ELSE <<Head(s)>> \o ReplaceAll(Tail(s), p)

\* the concatenation of a sequence of texts
RECURSIVE Concat(_)
Concat(ss) == IF ss = <<>> THEN <<>> ELSE Head(ss) \o Concat(Tail(ss))

\* the sequences of at most n elements of S
SeqsUpTo(S, n) == UNION {[1..k -> S] : k \in 0..n}

\* Python's None, as the result of a lookup
None == [none |-> TRUE]

\* an optional text (a str or None)
NoneText == [is_none |-> TRUE, text |-> <<>>]
Some(t) == [is_none |-> FALSE, text |-> t]

\* the truth value of an optional text: None and "" are false
Truthy(o) == ~o.is_none /\ o.text # <<>>

----------------------------------------------------------------------------
(* RegexAI.check_common_patterns *)

K_email == <<"e","m","a","i","l">>
K_phone == <<"p","h","o","n","e">>
K_url == <<"u","r","l">>
K_ip == <<"i","p">>
K_date == <<"d","a","t","e">>

\* the dict literal, in insertion order
common_patterns == <<
    [key |-> K_email, info |-> [
        pattern |-> "^[a-zA-Z0-9._%+-]+@[a-zA-Z0-9.-]+\\.[a-zA-Z]{2,}$",
        explanation |-> "Matches standard email addresses with alphanumeric characters, dots, underscores, plus signs and hyphens",
        examples |-> <<"user@example.com", "test.email+tag@domain.co.uk", "simple@test.org">>]],
    [key |-> K_phone, info |-> [
        pattern |-> "^\\+?[1-9]\\d{1, 14}$",
        explanation |-> "Matches international phone numbers with optional plus sign and 2-15 digits",
        examples |-> <<"+1234567890", "1234567890", "+441234567890">>]],
    [key |-> K_url, info |-> [
        pattern |-> "^https?://[^\\s]+$",
        explanation |-> "Matches HTTP and HTTPS URLs",
        examples |-> <<"https://example.com", "http://test.org/path", "https://sub.domain.com/page?query=value">>]],
    [key |-> K_ip, info |-> [
        pattern |-> "^(?:[0-9]{1, 3}\\.){3}[0-9]{1, 3}$",
        explanation |-> "Matches IPv4 addresses (basic format validation)",
        examples |-> <<"192.168.1.1", "10.0.0.1", "172.16.254.1">>]],
    [key |-> K_date, info |-> [
        pattern |-> "^(0[1-9]|1[0-2])/(0[1-9]|[12][0-9]|3[01])/\\d{4}$",
        explanation |-> "Matches dates in MM/DD/YYYY format",
        examples |-> <<"01/15/2024", "12/31/2023", "06/08/1990">>]]
>>

\* the four f-strings built around a key
Variants(key) ==
    { key \o <<" ","a","d","d","r","e","s","s">>,
      key \o <<" ","a","d","d","r","e","s","s","e","s">>,
      key \o <<" ","n","u","m","b","e","r">>,
      key \o <<" ","n","u","m","b","e","r","s">> }

\* a plausible slip: the key compared with the whole description
KeyMatchesWhole(key, desc_lower) ==
    \/ desc_lower = key
    \/ \E variant \in Variants(key) : desc_lower = variant

\* the condition of the loop body
KeyMatches(key, desc_lower) ==
    \/ Contains(desc_lower, key)
    \/ \E variant \in Variants(key) : Contains(desc_lower, variant)

\* the for loop over common_patterns.items(), from entry i on
RECURSIVE ScanPatterns(_, _)
ScanPatterns(desc_lower, i) ==
    IF i > Len(common_patterns) THEN None
    ELSE IF KeyMatches(common_patterns[i].key, desc_lower)
         THEN common_patterns[i].info
         ELSE ScanPatterns(desc_lower, i + 1)

\* a plausible slip: the description is searched as given, not lower-cased
check_common_patterns_as_given(d) == ScanPatterns(d, 1)

check_common_patterns(d) == ScanPatterns(Lower(d), 1)

----------------------------------------------------------------------------
(* The values the variables of the other harnesses keep. *)

NoText == <<>>
NoEngine == [kind |-> "unused", groups |-> FALSE]
NoCompletion == [kind |-> "unused", content |-> <<>>]
SomeKey == Some(<<"k">>)

----------------------------------------------------------------------------
(* Harness of check_common_patterns: the same description looked up twice. *)

T_tele == <<"t","e","l","e">>
T_number == <<" ","n","u","m","b","e","r">>
T_EMAIL == <<"E","M","A","I","L">>

DescPieces ==
    { K_email, K_phone, K_url, K_ip, K_date, T_tele, T_number, T_EMAIL,
      <<"s">>, <<" ">> }

Descriptions == { Concat(ps) : ps \in SeqsUpTo(DescPieces, MaxDescPieces) }

InitLookup ==
    /\ pc = "lookup"
    /\ description \in Descriptions
    /\ test_string = NoneText
    /\ dry_run = FALSE
    /\ explain = FALSE
    /\ api_key = SomeKey
    /\ completion = NoCompletion
    /\ engine = NoEngine
    /\ result = NoText
    /\ pattern = NoText
    /\ returned = <<>>
    /\ output = <<>>
    /\ outcome = "none"

Lookup ==
    /\ pc = "lookup"
    /\ Len(returned) < 2
    /\ returned' = Append(returned, check_common_patterns(description))
    /\ outcome' = "returned"
    /\ UNCHANGED <<pc, description, test_string, dry_run, explain, api_key,
                   completion, engine, result, pattern, output>>

NextLookup == Lookup

SpecLookup == InitLookup /\ [][NextLookup]_vars

EmailInfo == common_patterns[1].info
PhoneInfo == common_patterns[2].info

T_phone_number == K_phone \o T_number
T_phone_numbers == K_phone \o T_number \o <<"s">>
T_telephone == T_tele \o K_phone

\* key number i of the table occurs in the lower-cased description
KeyOccurs(i, d) == Contains(Lower(d), common_patterns[i].key)

\* C3: every lookup returns the record of the first key, in the table order
\* email, phone, url, ip, date, that is a substring of the lower-cased
\* description, and None exactly when no key is one; a description containing
\* "email" gets the email record; two lookups of one description return the
\* same record.
C3_FirstKeyInTableOrderWins ==
    pc = "lookup" =>
        \A n \in 1..Len(returned) :
            /\ (returned[n] = None) <=>
                   (\A i \in 1..Len(common_patterns) : ~KeyOccurs(i, description))
            /\ \A i \in 1..Len(common_patterns) :
                   (KeyOccurs(i, description)
                        /\ \A j \in 1..(i - 1) : ~KeyOccurs(j, description))
                   => returned[n] = common_patterns[i].info
            /\ Contains(description, K_email) => returned[n] = EmailInfo
            /\ returned[n] = returned[1]

\* C3 witness: a description in which a later key (phone) stands before the
\* first key (email, in upper case) has been looked up twice and got the
\* email record.
C3_Witness ==
    /\ pc = "lookup"
    /\ Len(returned) = 2
    /\ description = K_phone \o T_EMAIL
    /\ returned[2] = EmailInfo

\* C4 as stated: every description containing "phone number" or "phone
\* numbers" gets the phone record, and "telephone" gets None.
C4_AsStated ==
    pc = "lookup" =>
        \A n \in 1..Len(returned) :
            /\ (Contains(description, T_phone_number)
                    \/ Contains(description, T_phone_numbers))
               => returned[n] = PhoneInfo
            /\ description = T_telephone => returned[n] = None

\* C4 amended: every description containing "phone number" or "phone
\* numbers" whose lower-cased form does not contain "email" gets the phone
\* record, and so does "telephone", of which the key "phone" is a substring.
C4_PhoneUnlessEmail ==
    pc = "lookup" =>
        \A n \in 1..Len(returned) :
            /\ ((Contains(description, T_phone_number)
                     \/ Contains(description, T_phone_numbers))
                 /\ ~Contains(Lower(description), K_email))
               => returned[n] = PhoneInfo
            /\ description = T_telephone => returned[n] = PhoneInfo

\* C4 witness: "telephone number" has been looked up and got the phone
\* record.
C4_Witness ==
    /\ pc = "lookup"
    /\ description = T_tele \o T_phone_number
    /\ Len(returned) >= 1
    /\ returned[1] = PhoneInfo

----------------------------------------------------------------------------
(* RegexAI._parse_response *)

P_PATTERN == <<"P","A","T","T","E","R","N",":">>
P_EXPLANATION == <<"E","X","P","L","A","N","A","T","I","O","N",":">>
P_EXAMPLES == <<"E","X","A","M","P","L","E","S",":">>

\* line.replace(prefix, "").strip()
FieldText(line, prefix) == Strip(ReplaceAll(line, prefix))

\* [ex.strip() for ex in examples_text.split("|") if ex.strip()]
ExamplesList(examples_text) ==
    LET parts == Split(examples_text, "|")
        stripped == [i \in 1..Len(parts) |-> Strip(parts[i])]
        NonEmpty(ex) == ex # <<>>
    IN  SelectSeq(stripped, NonEmpty)

\* pattern, explanation, examples before the loop
EmptyParse == [pattern |-> <<>>, explanation |-> <<>>, examples |-> <<>>]

\* a plausible slip: a field is assigned only while it is still empty
ParseLineKeepFirst(acc, raw_line) ==
    LET line == Strip(raw_line) IN
    IF StartsWith(line, P_PATTERN) /\ acc.pattern = <<>>
    THEN [acc EXCEPT !.pattern = FieldText(line, P_PATTERN)]
    ELSE IF StartsWith(line, P_EXPLANATION) /\ acc.explanation = <<>>
    THEN [acc EXCEPT !.explanation = FieldText(line, P_EXPLANATION)]
    ELSE IF StartsWith(line, P_EXAMPLES) /\ acc.examples = <<>>
    THEN [acc EXCEPT !.examples = ExamplesList(FieldText(line, P_EXAMPLES))]
    ELSE acc

\* the body of the loop over the lines
ParseLine(acc, raw_line) ==
    LET line == Strip(raw_line) IN
    IF StartsWith(line, P_PATTERN)
    THEN [acc EXCEPT !.pattern = FieldText(line, P_PATTERN)]
    ELSE IF StartsWith(line, P_EXPLANATION)
    THEN [acc EXCEPT !.explanation = FieldText(line, P_EXPLANATION)]
    ELSE IF StartsWith(line, P_EXAMPLES)
    THEN [acc EXCEPT !.examples = ExamplesList(FieldText(line, P_EXAMPLES))]
    ELSE acc

RECURSIVE ParseLines(_, _)
ParseLines(acc, lines) ==
    IF lines = <<>> THEN acc
    ELSE ParseLines(ParseLine(acc, Head(lines)), Tail(lines))

_parse_response(raw) == ParseLines(EmptyParse, Split(raw, "\n"))

----------------------------------------------------------------------------
(* Harness of _parse_response. *)

RespPieces ==
    { P_PATTERN, P_EXPLANATION, P_EXAMPLES, <<" ","a">>, <<"|"," ">>, <<"\n">> }

Responses == { Concat(ps) : ps \in SeqsUpTo(RespPieces, MaxRespPieces) }

InitParse ==
    /\ pc = "parse"
    /\ description = NoText
    /\ test_string = NoneText
    /\ dry_run = FALSE
    /\ explain = FALSE
    /\ api_key = SomeKey
    /\ completion = NoCompletion
    /\ engine = NoEngine
    /\ result \in Responses
    /\ pattern = NoText
    /\ returned = <<>>
    /\ output = <<>>
    /\ outcome = "none"

Parse ==
    /\ pc = "parse"
    /\ returned = <<>>
    /\ returned' = <<_parse_response(result)>>
    /\ outcome' = "returned"
    /\ UNCHANGED <<pc, description, test_string, dry_run, explain, api_key,
                   completion, engine, result, pattern, output>>

NextParse == Parse

SpecParse == InitParse /\ [][NextParse]_vars

\* the stripped lines of the response
StrippedLines(raw) ==
    LET lines == Split(raw, "\n") IN [i \in 1..Len(lines) |-> Strip(lines[i])]

\* the numbers of the lines that carry the prefix
Carrying(raw, prefix) ==
    { i \in 1..Len(StrippedLines(raw)) : StartsWith(StrippedLines(raw)[i], prefix) }

Max(S) == CHOOSE x \in S : \A y \in S : y <= x

\* the last line that carries the prefix
LastCarrying(raw, prefix) == StrippedLines(raw)[Max(Carrying(raw, prefix))]

\* the rest of a line after its leading prefix, trimmed
TrimmedRemainder(line, prefix) == Strip(SubSeq(line, Len(prefix) + 1, Len(line)))

\* C5: each field holds exactly the trimmed remainder, after the leading
\* prefix, of the line that assigned it (the last line carrying the prefix),
\* also when the remainder contains the prefix again; the EXAMPLES remainder
\* is split on |, each segment trimmed, the empty ones dropped.
C5_FieldIsRemainderAfterLeadingPrefix ==
    (pc = "parse" /\ returned # <<>>) =>
        /\ Carrying(result, P_PATTERN) # {} =>
               returned[1].pattern =
                   TrimmedRemainder(LastCarrying(result, P_PATTERN), P_PATTERN)
        /\ Carrying(result, P_EXPLANATION) # {} =>
               returned[1].explanation =
                   TrimmedRemainder(LastCarrying(result, P_EXPLANATION), P_EXPLANATION)
        /\ Carrying(result, P_EXAMPLES) # {} =>
               returned[1].examples =
                   ExamplesList(TrimmedRemainder(LastCarrying(result, P_EXAMPLES), P_EXAMPLES))

\* C6: whatever the order of the lines, each field holds what the last line
\* carrying its prefix gives (the trimmed remainder of that line whenever the
\* remainder does not contain the prefix again), an empty one included, and a
\* field whose prefix is on no line is empty; with no recognizable line all
\* three are empty.
C6_LastLineOfEachPrefixWins ==
    (pc = "parse" /\ returned # <<>>) =>
        /\ \A f \in {"pattern", "explanation"} :
               LET prefix == IF f = "pattern" THEN P_PATTERN ELSE P_EXPLANATION IN
               IF Carrying(result, prefix) = {}
               THEN returned[1][f] = <<>>
               ELSE LET last == LastCarrying(result, prefix) IN
                    /\ returned[1][f] = FieldText(last, prefix)
                    /\ ~Contains(TrimmedRemainder(last, prefix), prefix)
                           => returned[1][f] = TrimmedRemainder(last, prefix)
        /\ IF Carrying(result, P_EXAMPLES) = {}
           THEN returned[1].examples = <<>>
           ELSE LET last == LastCarrying(result, P_EXAMPLES) IN
                /\ returned[1].examples = ExamplesList(FieldText(last, P_EXAMPLES))
                /\ ~Contains(TrimmedRemainder(last, P_EXAMPLES), P_EXAMPLES)
                       => returned[1].examples =
                              ExamplesList(TrimmedRemainder(last, P_EXAMPLES))
        /\ (\A prefix \in {P_PATTERN, P_EXPLANATION, P_EXAMPLES} :
                Carrying(result, prefix) = {}) => returned[1] = EmptyParse

\* C6 witness: a response whose first PATTERN line has a value and whose
\* last PATTERN line has none has been parsed to the empty pattern.
C6_Witness ==
    /\ pc = "parse"
    /\ returned # <<>>
    /\ result = P_PATTERN \o <<" ","a">> \o <<"\n">> \o P_PATTERN
    /\ returned[1].pattern = <<>>

----------------------------------------------------------------------------
(* RegexAI._explain_pattern *)

\* the nine if statements, in their order: the literals each one looks for
\* and the line it appends
Checklist == <<
    [needs |-> {<<"^">>}, line |-> "^ = Start of string"],
    [needs |-> {<<"$">>}, line |-> "$ = End of string"],
    [needs |-> {<<"+">>}, line |-> "+ = One or more of preceding element"],
    [needs |-> {<<"*">>}, line |-> "* = Zero or more of preceding element"],
    [needs |-> {<<"?">>}, line |-> "? = Zero or one of preceding element"],
    [needs |-> {<<"[">>, <<"]">>},
     line |-> "[] = Characters class (match any character inside)"],
    [needs |-> {<<"\\","d">>}, line |-> "\\d = Any digit (0-9)"],
    [needs |-> {<<"\\","w">>}, line |-> "\\w = Any word character (a-z, A-Z, 0-9, _)"],
    [needs |-> {<<"\\","s">>}, line |-> "\\s = Any whitespace character"]
>>

\* a plausible slip: `or` for `and` in the test of the pair [ ]
ItemPresentAny(pat, item) == \E lit \in item.needs : Contains(pat, lit)

\* the condition of one if statement
ItemPresent(pat, item) == \A lit \in item.needs : Contains(pat, lit)

\* the components list after the if statements from number i on
RECURSIVE Components(_, _)
Components(pat, i) ==
    IF i > Len(Checklist) THEN <<>>
    ELSE (IF ItemPresent(pat, Checklist[i]) THEN <<Checklist[i].line>> ELSE <<>>)
         \o Components(pat, i + 1)

\* what _explain_pattern prints
_explain_pattern(pat) ==
    LET components == Components(pat, 1) IN
    <<[kind |-> "breakdown", pattern |-> pat]>>
        \o [i \in 1..Len(components) |-> [kind |-> "component", line |-> components[i]]]

----------------------------------------------------------------------------
(* Harness of _explain_pattern. *)

PatChars == {"^", "$", "+", "*", "?", "[", "]", "\\", "d", "w", "s"}

Patterns == SeqsUpTo(PatChars, MaxPatLen)

InitExplain ==
    /\ pc = "explain"
    /\ description = NoText
    /\ test_string = NoneText
    /\ dry_run = FALSE
    /\ explain = TRUE
    /\ api_key = SomeKey
    /\ completion = NoCompletion
    /\ engine = NoEngine
    /\ result = NoText
    /\ pattern \in Patterns
    /\ returned = <<>>
    /\ output = <<>>
    /\ outcome = "none"

Explain ==
    /\ pc = "explain"
    /\ outcome = "none"
    /\ output' = _explain_pattern(pattern)
    /\ outcome' = "returned"
    /\ UNCHANGED <<pc, description, test_string, dry_run, explain, api_key,
                   completion, engine, result, pattern, returned>>

NextExplain == Explain

SpecExplain == InitExplain /\ [][NextExplain]_vars

\* the component lines printed so far
ComponentLines ==
    LET IsComponent(e) == e.kind = "component"
        es == SelectSeq(output, IsComponent)
    IN  [i \in 1..Len(es) |-> es[i].line]

\* how many times a line was printed
Printed(line) == Cardinality({i \in 1..Len(ComponentLines) : ComponentLines[i] = line})

Once(present) == IF present THEN 1 ELSE 0

\* the place of a line in the order ^, $, +, *, ?, [], \d, \w, \s
Rank(line) ==
    CASE line = "^ = Start of string" -> 1
      [] line = "$ = End of string" -> 2
      [] line = "+ = One or more of preceding element" -> 3
      [] line = "* = Zero or more of preceding element" -> 4
      [] line = "? = Zero or one of preceding element" -> 5
      [] line = "[] = Characters class (match any character inside)" -> 6
      [] line = "\\d = Any digit (0-9)" -> 7
      [] line = "\\w = Any word character (a-z, A-Z, 0-9, _)" -> 8
      [] line = "\\s = Any whitespace character" -> 9

\* C9: explain prints exactly one line for each item whose literal is a
\* substring of the pattern text and none for an absent one, however often
\* the literal occurs, in the order ^, $, +, *, ?, [], \d, \w, \s; the []
\* line only when both [ and ] occur.
C9_OneLinePerPresentItemInOrder ==
    (pc = "explain" /\ outcome = "returned") =>
        /\ Printed("^ = Start of string") = Once(Contains(pattern, <<"^">>))
        /\ Printed("$ = End of string") = Once(Contains(pattern, <<"$">>))
        /\ Printed("+ = One or more of preceding element")
               = Once(Contains(pattern, <<"+">>))
        /\ Printed("* = Zero or more of preceding element")
               = Once(Contains(pattern, <<"*">>))
        /\ Printed("? = Zero or one of preceding element")
               = Once(Contains(pattern, <<"?">>))
        /\ Printed("[] = Characters class (match any character inside)")
               = Once(Contains(pattern, <<"[">>) /\ Contains(pattern, <<"]">>))
        /\ Printed("\\d = Any digit (0-9)") = Once(Contains(pattern, <<"\\","d">>))
        /\ Printed("\\w = Any word character (a-z, A-Z, 0-9, _)")
               = Once(Contains(pattern, <<"\\","w">>))
        /\ Printed("\\s = Any whitespace character")
               = Once(Contains(pattern, <<"\\","s">>))
        /\ Len(ComponentLines) <= 9
        /\ \A i, j \in 1..Len(ComponentLines) :
               i < j => Rank(ComponentLines[i]) < Rank(ComponentLines[j])

\* C9 witness: a pattern with $ twice, standing before its ^, has been
\* explained: the ^ line, then the $ line once.
C9_Witness ==
    /\ pc = "explain"
    /\ outcome = "returned"
    /\ pattern = <<"$", "$", "^">>
    /\ ComponentLines = <<"^ = Start of string", "$ = End of string">>

----------------------------------------------------------------------------
(* RegexAI._display_result, _test_pattern, _build_prompt *)

\* what _display_result prints: the pattern, the explanation when there is
\* one, the examples when there are some
_display_result(has_explanation, n_examples) ==
    <<[kind |-> "generated_regex"]>>
        \o (IF has_explanation THEN <<[kind |-> "explanation"]>> ELSE <<>>)
        \o (IF n_examples > 0
            THEN <<[kind |-> "example_matches", count |-> n_examples]>>
            ELSE <<>>)

\* The outcomes of re.search(pattern, test_string): a match (with or without
\* groups), no match, re.error for a pattern the engine rejects, and
\* OverflowError, which the engine raises instead of re.error for a
\* repetition count of 2^32 - 1 or more, as in a{99999999999}.
EngineOutcomes ==
    { [kind |-> "match", groups |-> TRUE], [kind |-> "match", groups |-> FALSE],
      [kind |-> "nomatch", groups |-> FALSE],
      [kind |-> "re.error", groups |-> FALSE],
      [kind |-> "OverflowError", groups |-> FALSE] }

\* the engine rejects the pattern
Rejects(e) == e.kind \in {"re.error", "OverflowError"}

\* what _test_pattern prints and how it ends: only re.error is caught
_test_pattern(e) ==
    CASE e.kind = "match" ->
            [output |-> <<[kind |-> "testing"], [kind |-> "match_found"]>>
                          \o (IF e.groups THEN <<[kind |-> "captured_groups"]>> ELSE <<>>)
                          \o <<[kind |-> "matched_text"]>>,
             outcome |-> "returned"]
      [] e.kind = "nomatch" ->
            [output |-> <<[kind |-> "testing"], [kind |-> "no_match"]>>,
             outcome |-> "returned"]
      [] e.kind = "re.error" ->
            [output |-> <<[kind |-> "testing"], [kind |-> "invalid_pattern"]>>,
             outcome |-> "returned"]
      [] OTHER ->
            [output |-> <<[kind |-> "testing"]>>, outcome |-> e.kind]

\* the f-string: the fixed text with the description in its two places
_build_prompt(d) ==
    [template |-> "You are a regex expert. Generate a precise, production-ready regular expression for: ...",
     quoted |-> d, generate_for |-> d]

----------------------------------------------------------------------------
(* RegexAI.__init__ and RegexAI.generate *)

\* the attributes the class body defines
Methods ==
    { "__init__", "generate", "check_common_patterns", "_build_prompt",
      "_parse_response", "_display_result", "_test_pattern", "_explain_pattern" }

\* self.<name> resolves; if not, the attribute access raises AttributeError
HasAttr(name) == name \in Methods

\* The outcomes of openai.chat.completions.create: a completion with a text,
\* a completion whose content is None, one with no choices, a raised error.
R_full == P_PATTERN \o <<" ","a","\n">> \o P_EXPLANATION \o <<" ","a","\n">>
              \o P_EXAMPLES \o <<" ","a","|"," ","a"," ">>
R_no_pattern == P_EXPLANATION \o <<" ","a">>
R_empty_pattern == P_PATTERN \o <<" ","\n">> \o P_EXAMPLES \o <<" ","a">>

Completions ==
    { [kind |-> "ok", content |-> R_full],
      [kind |-> "ok", content |-> R_no_pattern],
      [kind |-> "ok", content |-> R_empty_pattern],
      [kind |-> "ok", content |-> <<>>],
      [kind |-> "none_content", content |-> <<>>],
      [kind |-> "no_choices", content |-> <<>>],
      [kind |-> "error", content |-> <<>>] }

\* the try block of generate: every exception raised inside it is caught
\* and printed
TryBlock(test, expl, c, e) ==
    IF c.kind # "ok"
    THEN <<[kind |-> "error_generating"]>>
    ELSE LET res == Strip(c.content)
             parsed == _parse_response(res)
             shown == _display_result(parsed.explanation # <<>>, Len(parsed.examples))
             tested == _test_pattern(e)
         IN  IF parsed.pattern = <<>>
             THEN <<[kind |-> "failed_to_generate"]>>
             ELSE IF Truthy(test) /\ tested.outcome # "returned"
             THEN shown \o tested.output \o <<[kind |-> "error_generating"]>>
             ELSE shown
                  \o (IF Truthy(test) THEN tested.output ELSE <<>>)
                  \o (IF expl THEN _explain_pattern(parsed.pattern) ELSE <<>>)

\* the branch taken when the description is in the table and dry_run is
\* off; the patterns of the table compile, so the engine finds a match or
\* none
CommonPatternBranch(common_pattern, test, e) ==
    LET tested == _test_pattern(IF Rejects(e)
                                THEN [kind |-> "nomatch", groups |-> FALSE]
                                ELSE e)
    IN  [output |-> _display_result(TRUE, Len(common_pattern.examples))
                        \o <<[kind |-> "found_in_database"]>>
                        \o (IF Truthy(test) THEN tested.output ELSE <<>>),
         outcome |-> "returned"]

\* generate: what it prints and how it ends
generate(d, test, dry, expl, c, e) ==
    IF ~HasAttr("_check_common_patterns")
    THEN [output |-> <<>>, outcome |-> "AttributeError"]
    ELSE LET common_pattern == check_common_patterns(d) IN
         IF common_pattern # None /\ ~dry
         THEN CommonPatternBranch(common_pattern, test, e)
         ELSE IF ~HasAttr("_buil_prompt")
         THEN [output |-> <<>>, outcome |-> "AttributeError"]
         ELSE IF dry
         THEN [output |-> <<[kind |-> "prompt", prompt |-> _build_prompt(d)]>>,
               outcome |-> "returned"]
         ELSE [output |-> <<[kind |-> "generating"]>> \o TryBlock(test, expl, c, e),
               outcome |-> "returned"]

----------------------------------------------------------------------------
(* main: the constructor, then generate.  A second harness calls            *)
(* _test_pattern on the constructed object directly.                       *)

GenDescriptions == { Concat(ps) : ps \in SeqsUpTo(DescPieces, 1) }

TestStrings == { NoneText, Some(<<>>), Some(<<"a","b","c">>) }

ApiKeys == { NoneText, Some(<<>>), SomeKey }

Init ==
    /\ pc = "main"
    /\ description \in GenDescriptions
    /\ test_string \in TestStrings
    /\ dry_run \in BOOLEAN
    /\ explain \in BOOLEAN
    /\ api_key \in ApiKeys
    /\ completion \in Completions
    /\ engine \in EngineOutcomes
    /\ result = NoText
    /\ pattern = NoText
    /\ returned = <<>>
    /\ output = <<>>
    /\ outcome = "none"

\* RegexAI(): sys.exit(1) when the key is missing or empty
Construct ==
    /\ pc = "main"
    /\ IF Truthy(api_key)
       THEN /\ pc' = "ready"
            /\ UNCHANGED <<output, outcome>>
       ELSE /\ pc' = "exited"
            /\ output' = <<[kind |-> "key_not_found"], [kind |-> "create_env_file"]>>
            /\ outcome' = "exit(1)"
    /\ UNCHANGED <<description, test_string, dry_run, explain, api_key,
                   completion, engine, result, pattern, returned>>

\* regexai.generate(args.description, args.test, args.dry_run, args.explain)
Generate ==
    /\ pc = "ready"
    /\ LET g == generate(description, test_string, dry_run, explain,
                         completion, engine)
       IN  /\ output' = g.output
           /\ outcome' = g.outcome
    /\ pc' = "generated"
    /\ UNCHANGED <<description, test_string, dry_run, explain, api_key,
                   completion, engine, result, pattern, returned>>

\* regexai._test_pattern(pattern, test_string), called directly with a sample
TestPattern ==
    /\ pc = "ready"
    /\ ~test_string.is_none
    /\ LET t == _test_pattern(engine)
       IN  /\ output' = t.output
           /\ outcome' = t.outcome
    /\ pc' = "tested"
    /\ UNCHANGED <<description, test_string, dry_run, explain, api_key,
                   completion, engine, result, pattern, returned>>

Next == Construct \/ Generate \/ TestPattern

Spec == Init /\ [][Next]_vars

\* the kinds of the lines printed, in order
Kinds == [i \in 1..Len(output) |-> output[i].kind]

PrintedKind(k) == \E i \in 1..Len(output) : output[i].kind = k

\* the display, test and explain steps among the lines printed, in order
StepsRun ==
    LET IsStep(k) == k \in {"generated_regex", "testing", "breakdown"}
    IN  SelectSeq(Kinds, IsStep)

\* the arguments put generate on the model path and the model answered
OnModelPath ==
    /\ pc = "generated"
    /\ ~dry_run
    /\ check_common_patterns(description) = None
    /\ completion.kind = "ok"

ParsedCompletion == _parse_response(Strip(completion.content))

\* C1: with the key present, every call of generate ends normally, whatever
\* the arguments and the outcome of the model call; the process ends
\* abnormally only by the missing-credential exit of the constructor.
C1_GenerateAlwaysEndsNormally ==
    /\ pc = "generated" => outcome = "returned"
    /\ pc = "exited" => ~Truthy(api_key)

\* C2: with dry_run set, generate prints the prompt built for the
\* description and nothing else, and returns: no model call, no display, no
\* test, no explain.
C2_DryRunPrintsThePrompt ==
    (pc = "generated" /\ dry_run) =>
        /\ outcome = "returned"
        /\ output = <<[kind |-> "prompt", prompt |-> _build_prompt(description)]>>

\* C7: on the model path an empty parsed pattern is reported as a failed
\* generation and nothing is displayed, tested or explained; a non-empty one
\* is displayed, then tested iff a test string is given, then explained iff
\* explain is set.
C7_EmptyPatternFailsOthersRunInOrder ==
    OnModelPath =>
        IF ParsedCompletion.pattern = <<>>
        THEN PrintedKind("failed_to_generate") /\ StepsRun = <<>>
        ELSE StepsRun = <<"generated_regex">>
                 \o (IF Truthy(test_string) THEN <<"testing">> ELSE <<>>)
                 \o (IF explain THEN <<"breakdown">> ELSE <<>>)

\* C8: for a pattern the engine rejects, _test_pattern prints an
\* invalid-pattern error, neither a match nor a no-match, and returns; in
\* generate the explain step, when asked for, still runs after it and the
\* call ends normally.
C8_RejectedPatternIsReportedNotRaised ==
    /\ (pc = "tested" /\ Rejects(engine)) =>
           /\ outcome = "returned"
           /\ PrintedKind("invalid_pattern")
           /\ ~PrintedKind("match_found") /\ ~PrintedKind("no_match")
    /\ (OnModelPath /\ ParsedCompletion.pattern # <<>>
            /\ Truthy(test_string) /\ Rejects(engine)) =>
           /\ outcome = "returned"
           /\ PrintedKind("invalid_pattern")
           /\ ~PrintedKind("match_found") /\ ~PrintedKind("no_match")
           /\ explain => PrintedKind("breakdown")

\* C10: when the description is in the table and dry_run is off, generate
\* displays the record, tests iff a test string is given, and returns;
\* it builds no prompt, makes no model call and never explains.
C10_CatalogHitSkipsModelAndExplain ==
    (pc = "generated" /\ ~dry_run /\ check_common_patterns(description) # None) =>
        /\ outcome = "returned"
        /\ StepsRun = <<"generated_regex">>
               \o (IF Truthy(test_string) THEN <<"testing">> ELSE <<>>)
        /\ PrintedKind("found_in_database")
        /\ ~PrintedKind("prompt") /\ ~PrintedKind("generating")
        /\ ~PrintedKind("error_generating") /\ ~PrintedKind("failed_to_generate")

====
